---- MODULE Spec2Model ----
(***************************************************************************)
(* Planning graph core of plan-migration: the PlanningTree class of        *)
(* src/dependencies/dependency_tree.py.  The registries (sources,          *)
(* products, tasks), the edge list, template instantiation, status         *)
(* application, the graph views built with igraph and the readiness pass.  *)
(***************************************************************************)
EXTENDS Integers, Sequences, FiniteSets, TLC

(***************************************************************************)
(* Bounds of the model.                                                    *)
(***************************************************************************)
MaxRows == 2        \* rows of one input file
MaxIngest == 2      \* add_product_sources calls in one behaviour
MaxStatusCalls == 2 \* add_task_statuses calls in one behaviour

(***************************************************************************)
(* Input domains.                                                          *)
(***************************************************************************)
SourceNames == {"S1", "S2"}
ProductIds == {"P1", "P2"}
ProductStatuses == {"active"}
StatusValues == {"done", "waiting", "on hold"}

\* Python's None (a missing cell, an attribute igraph fills in).
None == "<None>"

(***************************************************************************)
(* VertexType and EdgeType: the enum member names the code stores.         *)
(***************************************************************************)
VertexType == [SOURCE |-> "SOURCE", PRODUCT |-> "PRODUCT", TASK |-> "TASK"]
EdgeType == [SOURCE_TASK |-> "SOURCE_TASK", PRODUCT_TASK |-> "PRODUCT_TASK",
             SOURCE_PRODUCT |-> "SOURCE_PRODUCT",
             TASK_DEPENDENCY |-> "TASK_DEPENDENCY"]

(***************************************************************************)
(* Task templates (the JSON file read by __init__).  One is chosen at      *)
(* construction and never written afterwards.                              *)
(***************************************************************************)
TemplateTask(id, type, deps) ==
    [id_task |-> id, type_task |-> type, description |-> "d_" \o id,
     depends_on |-> deps]

\* A(SOURCE), B(PRODUCT) depends on A
TemplateAB == << TemplateTask("A", "SOURCE", << >>),
                 TemplateTask("B", "PRODUCT", << "A" >>) >>
\* chain A -> B -> C
TemplateChain == << TemplateTask("A", "SOURCE", << >>),
                    TemplateTask("B", "PRODUCT", << "A" >>),
                    TemplateTask("C", "PRODUCT", << "B" >>) >>
\* a SOURCE task that depends on a PRODUCT task
TemplateBA == << TemplateTask("B", "PRODUCT", << >>),
                 TemplateTask("A", "SOURCE", << "B" >>) >>
\* a dependency on an id that is not a template task
TemplateDangling == << TemplateTask("A", "SOURCE", << "X" >>) >>
\* a SOURCE task that depends on a SOURCE task
TemplateAD == << TemplateTask("A", "SOURCE", << >>),
                 TemplateTask("D", "SOURCE", << "A" >>) >>

Templates ==
    {TemplateAB, TemplateChain, TemplateBA, TemplateDangling, TemplateAD}

VARIABLES
    template_tasks,  \* self.template_tasks
    sources,         \* self.sources : name -> vertex dict
    products,        \* self.products : id -> vertex dict
    tasks,           \* self.tasks : id -> vertex dict
    edges,           \* self.edges : list of edge dicts
    dag,             \* the igraph snapshot the caller holds (or NoDag)
    call,            \* the last call made on the object, with its outcome
    calls            \* number of calls made so far, by kind

vars == << template_tasks, sources, products, tasks, edges, dag, call, calls >>

(***************************************************************************)
(* Helpers on sequences and dicts.                                         *)
(***************************************************************************)
Range(s) == {s[i] : i \in DOMAIN s}

EmptyDict == [k \in {} |-> None]

\* dict.update(other)
DictUpdate(d, other) ==
    [k \in DOMAIN d \cup DOMAIN other |->
        IF k \in DOMAIN other THEN other[k] ELSE d[k]]

\* the orders in which the elements of a finite set can be enumerated
Orders(S) ==
    {f \in [1..Cardinality(S) -> S] : \A i, j \in 1..Cardinality(S) :
                                          f[i] = f[j] => i = j}

\* one fixed enumeration of a finite set
RECURSIVE SetToSeq(_)
SetToSeq(S) ==
    IF S = {} THEN << >>
    ELSE LET x == CHOOSE y \in S : TRUE IN << x >> \o SetToSeq(S \ {x})

(***************************************************************************)
(* _add_edges: extend the list, then keep the first occurrence of every    *)
(* (source, target, type) dict.                                            *)
(***************************************************************************)
RECURSIVE UniqueEdges(_, _)
UniqueEdges(lst, unique) ==
    IF lst = << >> THEN unique
    ELSE UniqueEdges(Tail(lst),
                     IF Head(lst) \in Range(unique) THEN unique
                     ELSE Append(unique, Head(lst)))

ExtendOnly(cur, new) == cur \o new

AddEdges(cur, new) == UniqueEdges(cur \o new, << >>)

Edge(s, t, type) == [source |-> s, target |-> t, type |-> type]

(***************************************************************************)
(* Product-source rows as the importer hands them over: one row per        *)
(* (source, product) pair; the product's name and status repeat on every   *)
(* row of the product.                                                     *)
(***************************************************************************)
Row(s, p) ==
    [source_systems |-> s, id_product |-> p, name_product |-> "N_" \o p,
     status |-> CHOOSE x \in ProductStatuses : TRUE]

Rows == {Row(s, p) : s \in SourceNames, p \in ProductIds}

Batches == {b \in SUBSET Rows : Cardinality(b) <= MaxRows}

\* one pairing; one product fed by two sources; one source feeding two
\* products
ReadyBatches == {{Row("S1", "P1")},
                 {Row("S1", "P1"), Row("S2", "P1")},
                 {Row("S1", "P1"), Row("S1", "P2")}}

\* the same, and a pairing that shares nothing with them
QueryBatches == ReadyBatches \cup {{Row("S2", "P2")}}

\* files in which a source is named as a product id is, or as the id that a
\* task of another source of the file gets
CollidingBatches == {{Row("P1", "P1")},
                     {Row("P1", "P2"), Row("S1", "P1")},
                     {Row("S1", "P1"), Row("S1_A", "P1")}}

(***************************************************************************)
(* _add_sources: the sources dict is rebuilt from the rows of this call.   *)
(***************************************************************************)
\* the source of one row only
AddSourcesOfOneRow(df) ==
    IF df = {} THEN EmptyDict
    ELSE LET r == CHOOSE r \in df : TRUE
         IN [n \in {r.source_systems} |->
                [name |-> n, task_type |-> "SOURCE",
                 type |-> VertexType.SOURCE]]

AddSources(df) ==
    [n \in {r.source_systems : r \in df} \ {None} |->
        [name |-> n, task_type |-> "SOURCE", type |-> VertexType.SOURCE]]

(***************************************************************************)
(* _add_products: the products dict is rebuilt from the rows of this call. *)
(***************************************************************************)
AddProducts(df) ==
    [p \in {r.id_product : r \in df} |->
        LET r == CHOOSE r \in df : r.id_product = p
        IN [name |-> p, name_product |-> r.name_product,
            status |-> r.status, type |-> VertexType.PRODUCT]]

(***************************************************************************)
(* _add_edges_source_product: the unique (source, product) pairs of the    *)
(* rows; unique() leaves their order open, so every order is possible.     *)
(***************************************************************************)
EdgesSourceProduct(df) ==
    Orders({Edge(r.source_systems, r.id_product, EdgeType.SOURCE_PRODUCT) :
                r \in df})

(***************************************************************************)
(* _fill_task_template                                                     *)
(***************************************************************************)
\* str(id_product): product ids are strings already (the importer casts)
Str(x) == x

PrefixAlwaysSource(task, id_source, id_product) == id_source

Prefix(task, id_source, id_product) ==
    IF task.type_task = "SOURCE" THEN id_source ELSE Str(id_product)

\* first pass: template id -> new id; a later entry overwrites an earlier one
IdMapping(tt, id_source, id_product) ==
    [k \in {tt[i].id_task : i \in DOMAIN tt} |->
        LET i == CHOOSE i \in DOMAIN tt :
                     /\ tt[i].id_task = k
                     /\ \A j \in DOMAIN tt : j > i => tt[j].id_task # k
        IN Prefix(tt[i], id_source, id_product) \o "_" \o k]

\* id_mapping[dep] raises KeyError for a dep that is no template task id
FillRaises(tt) ==
    \E i \in DOMAIN tt : \E j \in DOMAIN tt[i].depends_on :
        tt[i].depends_on[j] \notin {tt[k].id_task : k \in DOMAIN tt}

\* depends_on rewritten through the mapping of one fixed pairing
FillTaskTemplateLeaking(tt, prods, id_source, id_product) ==
    LET id_mapping == IdMapping(tt, id_source, id_product)
        other == IdMapping(tt, "S1", "P1")
    IN [i \in DOMAIN tt |->
           [id_task |-> id_mapping[tt[i].id_task],
            type_task |-> tt[i].type_task,
            description |-> tt[i].description,
            related_to |-> IF tt[i].type_task = "PRODUCT"
                           THEN prods[id_product].name_product ELSE "",
            depends_on |-> [j \in DOMAIN tt[i].depends_on |->
                               other[tt[i].depends_on[j]]],
            worked_on |-> IF tt[i].type_task = "SOURCE"
                          THEN id_source ELSE Str(id_product)]]

FillTaskTemplate(tt, prods, id_source, id_product) ==
    LET id_mapping == IdMapping(tt, id_source, id_product)
    IN [i \in DOMAIN tt |->
           [id_task |-> id_mapping[tt[i].id_task],
            type_task |-> tt[i].type_task,
            description |-> tt[i].description,
            related_to |-> IF tt[i].type_task = "PRODUCT"
                           THEN prods[id_product].name_product ELSE "",
            depends_on |-> [j \in DOMAIN tt[i].depends_on |->
                               id_mapping[tt[i].depends_on[j]]],
            worked_on |-> IF tt[i].type_task = "SOURCE"
                          THEN id_source ELSE Str(id_product)]]

(***************************************************************************)
(* _add_edges_source_tasks, _add_edges_product_tasks,                      *)
(* _extract_dependencies: the edge batches of one filled template.         *)
(***************************************************************************)
EdgesSourceTasks(id_source, filled) ==
    LET sel == SelectSeq(filled, LAMBDA t : t.type_task = "SOURCE")
    IN [i \in DOMAIN sel |->
           Edge(id_source, sel[i].id_task, EdgeType.SOURCE_TASK)]

\* the product-task edges drawn from the product to the task
EdgesProductTasksReversed(id_product, filled) ==
    LET sel == SelectSeq(filled, LAMBDA t : t.type_task = "PRODUCT")
    IN [i \in DOMAIN sel |->
           Edge(id_product, sel[i].id_task, EdgeType.PRODUCT_TASK)]

EdgesProductTasks(id_product, filled) ==
    LET sel == SelectSeq(filled, LAMBDA t : t.type_task = "PRODUCT")
    IN [i \in DOMAIN sel |->
           Edge(sel[i].id_task, id_product, EdgeType.PRODUCT_TASK)]

RECURSIVE ExtractDependencies(_)
ExtractDependencies(filled) ==
    IF filled = << >> THEN << >>
    ELSE LET task == Head(filled)
         IN [j \in DOMAIN task.depends_on |->
                Edge(task.depends_on[j], task.id_task,
                     EdgeType.TASK_DEPENDENCY)]
            \o ExtractDependencies(Tail(filled))

(***************************************************************************)
(* _add_tasks: tasks.update with the filled template; a task already in    *)
(* the dict is replaced by the new record.                                 *)
(***************************************************************************)
TaskNode(task) ==
    [id_task |-> task.id_task, type_task |-> task.type_task,
     description |-> task.description, related_to |-> task.related_to,
     depends_on |-> task.depends_on, worked_on |-> task.worked_on,
     name |-> task.id_task, type |-> VertexType.TASK]

\* the task dict is rebuilt from the filled template, as the sources and
\* products dicts are from their rows
AddTasksReplacing(tks, filled) ==
    [n \in {filled[i].id_task : i \in DOMAIN filled} |->
        LET i == CHOOSE i \in DOMAIN filled :
                     /\ filled[i].id_task = n
                     /\ \A j \in DOMAIN filled : j > i => filled[j].id_task # n
        IN TaskNode(filled[i])]

AddTasks(tks, filled) ==
    DictUpdate(tks, [n \in {filled[i].id_task : i \in DOMAIN filled} |->
                       LET i == CHOOSE i \in DOMAIN filled :
                                  /\ filled[i].id_task = n
                                  /\ \A j \in DOMAIN filled :
                                         j > i => filled[j].id_task # n
                       IN TaskNode(filled[i])])

(***************************************************************************)
(* The loop of add_product_sources over the source-product edges.          *)
(***************************************************************************)
RECURSIVE InstantiateAll(_, _, _, _, _)
InstantiateAll(sp, tt, prods, tks, eds) ==
    IF sp = << >> THEN [tasks |-> tks, edges |-> eds]
    ELSE LET id_product == Head(sp).target
             id_source == Head(sp).source
             filled == FillTaskTemplate(tt, prods, id_source, id_product)
             e1 == AddEdges(eds, EdgesSourceTasks(id_source, filled))
             e2 == AddEdges(e1, EdgesProductTasks(id_product, filled))
             t1 == AddTasks(tks, filled)
             e3 == AddEdges(e2, ExtractDependencies(filled))
         IN InstantiateAll(Tail(sp), tt, prods, t1, e3)

(***************************************************************************)
(* add_task_statuses: the rows are applied in order; a row whose task id   *)
(* is not a key of self.tasks raises KeyError and ends the loop.           *)
(***************************************************************************)
Bogus == "bogus"

SetItem(d, k, v) == [x \in DOMAIN d \cup {k} |-> IF x = k THEN v ELSE d[x]]

GetItem(d, k) == IF k \in DOMAIN d THEN d[k] ELSE None

\* the status files of at most len rows about the task ids
StatusBatches(ids, len) ==
    UNION {[1..n -> [task : ids, status : StatusValues]] : n \in 0..len}

\* rows about unknown tasks are skipped
RECURSIVE ApplyStatusesSkipUnknown(_, _)
ApplyStatusesSkipUnknown(tks, rows) ==
    IF rows = << >> THEN [tasks |-> tks, outcome |-> "ok"]
    ELSE ApplyStatusesSkipUnknown(
             IF Head(rows).task \in DOMAIN tks
             THEN [tks EXCEPT ![Head(rows).task] =
                       SetItem(@, "status", Head(rows).status)]
             ELSE tks,
             Tail(rows))

\* a status is written only to a task that has none
RECURSIVE ApplyStatusesKeepFirst(_, _)
ApplyStatusesKeepFirst(tks, rows) ==
    IF rows = << >> THEN [tasks |-> tks, outcome |-> "ok"]
    ELSE LET task == Head(rows).task
         IN IF task \notin DOMAIN tks
            THEN [tasks |-> tks, outcome |-> "KeyError"]
            ELSE ApplyStatusesKeepFirst(
                     IF "status" \in DOMAIN tks[task] THEN tks
                     ELSE [tks EXCEPT ![task] =
                               SetItem(@, "status", Head(rows).status)],
                     Tail(rows))

\* the loop goes on after a row about an unknown task and raises at the end
ApplyStatusesPastUnknown(tks, rows) ==
    [tasks |-> ApplyStatusesSkipUnknown(tks, rows).tasks,
     outcome |-> IF \E k \in DOMAIN rows : rows[k].task \notin DOMAIN tks
                 THEN "KeyError" ELSE "ok"]

RECURSIVE ApplyStatuses(_, _)
ApplyStatuses(tks, rows) ==
    IF rows = << >> THEN [tasks |-> tks, outcome |-> "ok"]
    ELSE LET task == Head(rows).task
         IN IF task \notin DOMAIN tks
            THEN [tasks |-> tks, outcome |-> "KeyError"]
            ELSE ApplyStatuses(
                     [tks EXCEPT ![task] =
                          SetItem(@, "status", Head(rows).status)],
                     Tail(rows))

(***************************************************************************)
(* igraph.  A graph is a list of vertices (attribute dicts), a list of     *)
(* edges between vertex indices, and the vertex attribute names it has.    *)
(***************************************************************************)
NoDag == [vs |-> << >>, es |-> << >>, attrs |-> {}, built |-> FALSE]

\* index of the first vertex called n, 0 if there is none
FirstIndex(vs, n) ==
    IF \E i \in DOMAIN vs : vs[i].name = n
    THEN CHOOSE i \in DOMAIN vs :
             vs[i].name = n /\ \A j \in DOMAIN vs : j < i => vs[j].name # n
    ELSE 0

\* Graph.DictList names the vertices by their "name"; an edge end that
\* names no vertex adds a vertex that has a name and nothing else.
RECURSIVE WithEndpoints(_, _)
WithEndpoints(vs, ends) ==
    IF ends = << >> THEN vs
    ELSE WithEndpoints(IF FirstIndex(vs, Head(ends)) = 0
                       THEN Append(vs, [name |-> Head(ends)]) ELSE vs,
                       Tail(ends))

RECURSIVE Endpoints(_)
Endpoints(es) ==
    IF es = << >> THEN << >>
    ELSE << Head(es).source, Head(es).target >> \o Endpoints(Tail(es))

DictListRaises(vertices) ==
    \E i, j \in DOMAIN vertices : i # j /\ vertices[i].name = vertices[j].name

DictList(vertices, es) ==
    LET vs == WithEndpoints(vertices, Endpoints(es))
    IN [vs |-> vs,
        es |-> [k \in DOMAIN es |->
                   [s |-> FirstIndex(vs, es[k].source),
                    t |-> FirstIndex(vs, es[k].target),
                    type |-> es[k].type]],
        attrs |-> IF vertices = << >> THEN {"name"}
                  ELSE UNION {DOMAIN vertices[i] : i \in DOMAIN vertices},
        built |-> TRUE]

\* vx[attr] for an attribute the graph has
Attr(g, i, attr) == GetItem(g.vs[i], attr)

\* dag.predecessors(vx) / successors
Predecessors(g, i) == {g.es[k].s : k \in {k \in DOMAIN g.es : g.es[k].t = i}}
Successors(g, i) == {g.es[k].t : k \in {k \in DOMAIN g.es : g.es[k].s = i}}

\* dag.subcomponent(vx, mode): the vertices vx is reached from ("in") or
\* reaches ("out"), vx included
SubcomponentOneStep(g, seen, mode) ==
    seen \cup UNION {IF mode = "in" THEN Predecessors(g, i)
                     ELSE Successors(g, i) : i \in seen}

RECURSIVE Subcomponent(_, _, _)
Subcomponent(g, seen, mode) ==
    LET step == UNION {IF mode = "in" THEN Predecessors(g, i)
                       ELSE Successors(g, i) : i \in seen}
    IN IF step \subseteq seen THEN seen
       ELSE Subcomponent(g, seen \cup step, mode)

\* dag.delete_vertices(all but keep): the vertices left are renumbered and
\* the edges that lost an end are gone
DeleteVertices(g, keep) ==
    LET idx == SelectSeq([i \in DOMAIN g.vs |-> i], LAMBDA i : i \in keep)
        new(i) == CHOOSE k \in DOMAIN idx : idx[k] = i
        es == SelectSeq(g.es, LAMBDA e : e.s \in keep /\ e.t \in keep)
    IN [g EXCEPT !.vs = [k \in DOMAIN idx |-> g.vs[idx[k]]],
                 !.es = [k \in DOMAIN es |->
                            [s |-> new(es[k].s), t |-> new(es[k].t),
                             type |-> es[k].type]]]

(***************************************************************************)
(* The views.  list(d.values()) is taken in one fixed order: the order of  *)
(* the vertices within one registry decides no outcome.                    *)
(***************************************************************************)
Values(d) == LET keys == SetToSeq(DOMAIN d) IN [i \in DOMAIN keys |-> d[keys[i]]]

TemplateVertices(tt) ==
    [i \in DOMAIN tt |->
        [id_task |-> tt[i].id_task, type_task |-> tt[i].type_task,
         description |-> tt[i].description, depends_on |-> tt[i].depends_on,
         name |-> tt[i].id_task, type |-> VertexType.TASK]]

TasksTemplate(tt) == DictList(TemplateVertices(tt), ExtractDependencies(tt))

ProductSources(srcs, prods, eds) ==
    DictList(Values(srcs) \o Values(prods),
             SelectSeq(eds, LAMBDA e :
                 e.type \notin {EdgeType.TASK_DEPENDENCY,
                                EdgeType.PRODUCT_TASK, EdgeType.SOURCE_TASK}))

ProductSourceTasksVertices(srcs, prods, tks) ==
    Values(srcs) \o Values(prods) \o Values(tks)

ProductSourceTasks(srcs, prods, tks, eds) ==
    DictList(ProductSourceTasksVertices(srcs, prods, tks),
             SelectSeq(eds, LAMBDA e : e.type \notin {EdgeType.SOURCE_PRODUCT}))

TaskGraphs(tks, eds) ==
    DictList(Values(tks),
             SelectSeq(eds, LAMBDA e : e.type = EdgeType.TASK_DEPENDENCY))

\* get_product_tasks / get_source_tasks on the full view g, from the first
\* vertex called id: keep its subcomponent, delete the rest
Extract(g, id, mode) ==
    DeleteVertices(g, Subcomponent(g, {FirstIndex(g.vs, id)}, mode))

(***************************************************************************)
(* set_tasks_ready: first collect the unset tasks whose task predecessors  *)
(* are all "done" (and there is one), then set them to "ready".            *)
(***************************************************************************)
TaskVertices(g) ==
    {i \in DOMAIN g.vs : Attr(g, i, "type") = VertexType.TASK}

Statusses(g, i) ==
    {Attr(g, j, "status") :
        j \in {j \in Predecessors(g, i) : Attr(g, j, "type") = VertexType.TASK}}

AllDoneOrNone(statusses) == \A x \in statusses : x = "done"

AllDone(statusses) == statusses # {} /\ \A x \in statusses : x = "done"

NextUpAnyStatus(g) == {i \in TaskVertices(g) : AllDone(Statusses(g, i))}

NextUp(g) ==
    {i \in TaskVertices(g) :
        Attr(g, i, "status") = None /\ AllDone(Statusses(g, i))}

\* vs.select(type_eq=...) and vx["status"] raise KeyError when the graph
\* has no such vertex attribute
SetTasksReadyRaises(g) ==
    \/ "type" \notin g.attrs
    \/ TaskVertices(g) # {} /\ "status" \notin g.attrs

RECURSIVE SetTasksReadyFixpoint(_)
SetTasksReadyFixpoint(g) ==
    LET up == {i \in TaskVertices(g) :
                  /\ Attr(g, i, "status") = None
                  /\ AllDone({IF x = "ready" THEN "done" ELSE x :
                                 x \in Statusses(g, i)})}
    IN IF up = {} THEN g
       ELSE SetTasksReadyFixpoint(
                [g EXCEPT !.vs = [i \in DOMAIN g.vs |->
                     IF i \in up THEN SetItem(g.vs[i], "status", "ready")
                     ELSE g.vs[i]]])

\* every task whose task predecessors are all "done" becomes "ready",
\* whatever its own status
SetTasksReadyAnyStatus(g) ==
    [g EXCEPT !.vs = [i \in DOMAIN g.vs |->
        IF i \in NextUpAnyStatus(g) THEN SetItem(g.vs[i], "status", "ready")
        ELSE g.vs[i]]]

\* one pass in which a "ready" predecessor counts as "done"
SetTasksReadyCountsReady(g) ==
    [g EXCEPT !.vs = [i \in DOMAIN g.vs |->
        IF /\ Attr(g, i, "type") = VertexType.TASK
           /\ Attr(g, i, "status") = None
           /\ AllDone({IF x = "ready" THEN "done" ELSE x :
                          x \in Statusses(g, i)})
        THEN SetItem(g.vs[i], "status", "ready")
        ELSE g.vs[i]]]

SetTasksReady(g) ==
    LET lst_next_up == NextUp(g)
    IN [g EXCEPT !.vs = [i \in DOMAIN g.vs |->
           IF /\ i \in lst_next_up
              /\ Attr(g, i, "type") = VertexType.TASK
              /\ Attr(g, i, "status") = None
           THEN SetItem(g.vs[i], "status", "ready")
           ELSE g.vs[i]]]

Init ==
    /\ template_tasks \in Templates
    /\ sources = EmptyDict
    /\ products = EmptyDict
    /\ tasks = EmptyDict
    /\ edges = << >>
    /\ dag = NoDag
    /\ call = [name |-> "__init__", outcome |-> "ok"]
    /\ calls = [ingest |-> 0, status |-> 0]

(***************************************************************************)
(* add_product_sources(df_product_sources)                                 *)
(***************************************************************************)
\* the template dicts themselves are rewritten (no copy is taken)
add_product_sources_in_place(df) ==
    /\ calls.ingest < MaxIngest
    /\ calls' = [calls EXCEPT !.ingest = @ + 1]
    /\ \E sp \in EdgesSourceProduct(df) :
         LET e0 == AddEdges(edges, sp)
         IN /\ sources' = AddSources(df)
            /\ products' = AddProducts(df)
            /\ IF sp # << >> /\ FillRaises(template_tasks)
               THEN /\ tasks' = tasks
                    /\ edges' = e0
                    /\ template_tasks' = template_tasks
                    /\ call' = [name |-> "add_product_sources", df |-> df,
                                outcome |-> "KeyError"]
               ELSE LET r == InstantiateAll(sp, template_tasks, products',
                                            tasks, e0)
                    IN /\ tasks' = r.tasks
                       /\ edges' = r.edges
                       /\ template_tasks' =
                              IF sp = << >> THEN template_tasks
                              ELSE FillTaskTemplate(template_tasks, products',
                                                    sp[Len(sp)].source,
                                                    sp[Len(sp)].target)
                       /\ call' = [name |-> "add_product_sources",
                                   df |-> df, outcome |-> "ok"]
    /\ UNCHANGED dag

add_product_sources(df) ==
    /\ calls.ingest < MaxIngest
    /\ calls' = [calls EXCEPT !.ingest = @ + 1]
    /\ \E sp \in EdgesSourceProduct(df) :
         LET e0 == AddEdges(edges, sp)
         IN /\ sources' = AddSources(df)
            /\ products' = AddProducts(df)
            /\ IF sp # << >> /\ FillRaises(template_tasks)
               THEN /\ tasks' = tasks
                    /\ edges' = e0
                    /\ call' = [name |-> "add_product_sources", df |-> df,
                                outcome |-> "KeyError"]
               ELSE LET r == InstantiateAll(sp, template_tasks, products',
                                            tasks, e0)
                    IN /\ tasks' = r.tasks
                       /\ edges' = r.edges
                       /\ call' = [name |-> "add_product_sources",
                                   df |-> df, outcome |-> "ok"]
    /\ UNCHANGED << template_tasks, dag >>

(***************************************************************************)
(* add_task_statuses(df_task_status)                                       *)
(***************************************************************************)
add_task_statuses(df) ==
    /\ calls.status < MaxStatusCalls
    /\ calls' = [calls EXCEPT !.status = @ + 1]
    /\ LET r == ApplyStatuses(tasks, df)
       IN /\ tasks' = r.tasks
          /\ call' = [name |-> "add_task_statuses", df |-> df,
                      outcome |-> r.outcome]
    /\ UNCHANGED << template_tasks, sources, products, edges, dag >>

(***************************************************************************)
(* The queries: each builds a new graph, which the caller then holds.      *)
(***************************************************************************)
\* the vertices the graph lacks are deleted from the task registry too
QueryPruning(name, id, vertices, g) ==
    /\ IF DictListRaises(vertices)
       THEN /\ dag' = dag
            /\ tasks' = tasks
            /\ call' = [name |-> name, id |-> id, outcome |-> "ValueError"]
       ELSE /\ dag' = g
            /\ tasks' = [t \in {t \in DOMAIN tasks :
                                    \E i \in DOMAIN g.vs : g.vs[i].name = t}
                            |-> tasks[t]]
            /\ call' = [name |-> name, id |-> id, outcome |-> "ok"]
    /\ UNCHANGED << template_tasks, sources, products, edges, calls >>

Query(name, id, vertices, g) ==
    /\ IF DictListRaises(vertices)
       THEN /\ dag' = dag
            /\ call' = [name |-> name, id |-> id, outcome |-> "ValueError"]
       ELSE /\ dag' = g
            /\ call' = [name |-> name, id |-> id, outcome |-> "ok"]
    /\ UNCHANGED << template_tasks, sources, products, tasks, edges, calls >>

get_tasks_template ==
    Query("get_tasks_template", None, TemplateVertices(template_tasks),
          TasksTemplate(template_tasks))

get_product_sources ==
    Query("get_product_sources", None, Values(sources) \o Values(products),
          ProductSources(sources, products, edges))

get_product_source_tasks ==
    Query("get_product_source_tasks", None,
          ProductSourceTasksVertices(sources, products, tasks),
          ProductSourceTasks(sources, products, tasks, edges))

get_task_graphs ==
    Query("get_task_graphs", None, Values(tasks), TaskGraphs(tasks, edges))

\* dag.vs.select(name=id)[0] raises IndexError when no vertex is called id
ExtractQuery(name, id, mode) ==
    LET vertices == ProductSourceTasksVertices(sources, products, tasks)
        g == ProductSourceTasks(sources, products, tasks, edges)
    IN IF ~DictListRaises(vertices) /\ FirstIndex(g.vs, id) = 0
       THEN /\ call' = [name |-> name, id |-> id, outcome |-> "IndexError"]
            /\ UNCHANGED << template_tasks, sources, products, tasks, edges,
                            dag, calls >>
       ELSE Query(name, id, vertices, Extract(g, id, mode))

get_product_tasks(id_product) ==
    ExtractQuery("get_product_tasks", id_product, "in")

get_source_tasks(id_source) ==
    ExtractQuery("get_source_tasks", id_source, "out")

(***************************************************************************)
(* set_tasks_ready(dag) on the graph the caller holds.                     *)
(***************************************************************************)
\* the pass also writes "ready" into the task registry
set_tasks_ready_in_registry ==
    /\ dag.built
    /\ IF SetTasksReadyRaises(dag)
       THEN /\ dag' = dag
            /\ tasks' = tasks
            /\ call' = [name |-> "set_tasks_ready", before |-> dag,
                        outcome |-> "KeyError"]
       ELSE /\ dag' = SetTasksReady(dag)
            /\ tasks' = [t \in DOMAIN tasks |->
                            IF \E i \in NextUp(dag) : dag.vs[i].name = t
                            THEN SetItem(tasks[t], "status", "ready")
                            ELSE tasks[t]]
            /\ call' = [name |-> "set_tasks_ready", before |-> dag,
                        outcome |-> "ok"]
    /\ UNCHANGED << template_tasks, sources, products, edges, calls >>

set_tasks_ready ==
    /\ dag.built
    /\ IF SetTasksReadyRaises(dag)
       THEN /\ dag' = dag
            /\ call' = [name |-> "set_tasks_ready", before |-> dag,
                        outcome |-> "KeyError"]
       ELSE /\ dag' = SetTasksReady(dag)
            /\ call' = [name |-> "set_tasks_ready", before |-> dag,
                        outcome |-> "ok"]
    /\ UNCHANGED << template_tasks, sources, products, tasks, edges, calls >>

(***************************************************************************)
(* The caller is done with its graph: the dag of a plot_graph_* method     *)
(* goes out of scope when the method returns.                              *)
(***************************************************************************)
release ==
    /\ dag.built
    /\ dag' = NoDag
    /\ call' = [name |-> "release", outcome |-> "ok"]
    /\ UNCHANGED << template_tasks, sources, products, tasks, edges, calls >>

(***************************************************************************)
(* PlanningReport.get_tasks: the task dicts as a table.  from_dicts raises *)
(* NoDataError on an empty list; the columns are the keys of the dicts, a  *)
(* dict without the key has a null cell; the nulls of the status column,   *)
(* if there is one, become "waiting".                                     *)
(***************************************************************************)
FromDicts(lst) ==
    LET columns == UNION {DOMAIN lst[i] : i \in DOMAIN lst}
    IN [i \in DOMAIN lst |-> [c \in columns |-> GetItem(lst[i], c)]]

FillNull(df, column, value) ==
    [i \in DOMAIN df |->
        [c \in DOMAIN df[i] |->
            IF c = column /\ df[i][c] = None THEN value ELSE df[i][c]]]

Columns(df) == UNION {DOMAIN df[i] : i \in DOMAIN df}

GetTasks(tks) ==
    LET df_tasks == FromDicts(Values(tks))
    IN IF "status" \in Columns(df_tasks)
       THEN FillNull(df_tasks, "status", "waiting")
       ELSE df_tasks

get_tasks ==
    /\ IF DOMAIN tasks = {}
       THEN call' = [name |-> "get_tasks", outcome |-> "NoDataError"]
       ELSE call' = [name |-> "get_tasks", outcome |-> "ok",
                     table |-> GetTasks(tasks)]
    /\ UNCHANGED << template_tasks, sources, products, tasks, edges, dag,
                    calls >>

Next ==
    \/ \E df \in Batches : add_product_sources(df)
    \/ \E df \in StatusBatches(DOMAIN tasks \cup {Bogus}, MaxRows) :
           add_task_statuses(df)
    \/ get_tasks_template
    \/ get_product_sources
    \/ get_product_source_tasks
    \/ get_task_graphs
    \/ \E id \in ProductIds \cup {Bogus} : get_product_tasks(id)
    \/ \E id \in SourceNames \cup {Bogus} : get_source_tasks(id)
    \/ set_tasks_ready
    \/ release
    \/ get_tasks

Spec == Init /\ [][Next]_vars

(***************************************************************************)
(* Ingestion alone: any batches, in any order.                             *)
(***************************************************************************)
NextIngest == \E df \in Batches : add_product_sources(df)

SpecIngest == Init /\ [][NextIngest]_vars

(***************************************************************************)
(* The flow of main.py: construction, one ingestion, then status files     *)
(* (here of one row each), and reports: a view is built, possibly given a  *)
(* readiness pass, and dropped.                                            *)
(***************************************************************************)
Loaded == call.name # "__init__"

NextReady ==
    \/ \E df \in ReadyBatches : ~Loaded /\ add_product_sources(df)
    \/ \E df \in StatusBatches(DOMAIN tasks \cup {Bogus}, 1) \ {<< >>} :
           Loaded /\ ~dag.built /\ add_task_statuses(df)
    \/ Loaded /\ ~dag.built /\ get_product_source_tasks
    \/ Loaded /\ ~dag.built /\ get_task_graphs
    \/ \E id \in ProductIds \cup {Bogus} :
           Loaded /\ ~dag.built /\ get_product_tasks(id)
    \/ \E id \in SourceNames \cup {Bogus} :
           Loaded /\ ~dag.built /\ get_source_tasks(id)
    \/ set_tasks_ready
    \/ release

SpecReady == Init /\ [][NextReady]_vars

(***************************************************************************)
(* Ingestions followed by queries: the views of a tree that was ingested   *)
(* into more than once.                                                    *)
(***************************************************************************)
NextQuery ==
    \/ \E df \in QueryBatches : ~dag.built /\ add_product_sources(df)
    \/ ~dag.built /\ get_product_source_tasks
    \/ \E id \in ProductIds \cup {Bogus} : ~dag.built /\ get_product_tasks(id)
    \/ \E id \in SourceNames \cup {Bogus} : ~dag.built /\ get_source_tasks(id)
    \/ release

SpecQuery == Init /\ [][NextQuery]_vars

(***************************************************************************)
(* Ingestions and every view and extraction, each graph dropped before the *)
(* next call.                                                              *)
(***************************************************************************)
NextViews ==
    \/ \E df \in QueryBatches : ~dag.built /\ add_product_sources(df)
    \/ ~dag.built /\ get_tasks_template
    \/ ~dag.built /\ get_product_sources
    \/ ~dag.built /\ get_product_source_tasks
    \/ ~dag.built /\ get_task_graphs
    \/ \E id \in ProductIds \cup {Bogus} : ~dag.built /\ get_product_tasks(id)
    \/ \E id \in SourceNames \cup {Bogus} : ~dag.built /\ get_source_tasks(id)
    \/ release

SpecViews == Init /\ [][NextViews]_vars

(***************************************************************************)
(* Ingestions and status files in any order, and the task table: what a    *)
(* caller sees who ingests again after statuses were applied, and the      *)
(* table the dashboard and the export are given.                           *)
(***************************************************************************)
NextReport ==
    \/ \E df \in ReadyBatches : add_product_sources(df)
    \/ \E df \in StatusBatches(DOMAIN tasks \cup {Bogus}, 1) \ {<< >>} :
           add_task_statuses(df)
    \/ call.name # "get_tasks" /\ get_tasks

SpecReport == Init /\ [][NextReport]_vars

(***************************************************************************)
(* Ingestions with one status file of one row between them: what a later   *)
(* ingestion leaves of the tasks and edges of the earlier ones.            *)
(***************************************************************************)
NextReingest ==
    \/ \E df \in ReadyBatches : add_product_sources(df)
    \/ \E df \in StatusBatches(DOMAIN tasks \cup {Bogus}, 1) \ {<< >>} :
           Loaded /\ calls.status = 0 /\ add_task_statuses(df)

SpecReingest == Init /\ [][NextReingest]_vars

(***************************************************************************)
(* One ingestion of a file whose names may coincide, followed by the       *)
(* queries that build the Full view.                                       *)
(***************************************************************************)
NextCollide ==
    \/ \E df \in ReadyBatches \cup CollidingBatches :
           ~Loaded /\ add_product_sources(df)
    \/ Loaded /\ ~dag.built /\ get_product_source_tasks
    \/ \E id \in ProductIds : Loaded /\ ~dag.built /\ get_product_tasks(id)
    \/ \E id \in SourceNames \cup {"P1"} :
           Loaded /\ ~dag.built /\ get_source_tasks(id)
    \/ release

SpecCollide == Init /\ [][NextCollide]_vars

(***************************************************************************)
(* One ingestion of one pairing and one status file of several rows.       *)
(***************************************************************************)
NextStatus ==
    \/ ~Loaded /\ add_product_sources({Row("S1", "P1")})
    \/ \E df \in StatusBatches(DOMAIN tasks \cup {Bogus}, MaxRows) :
           Loaded /\ calls.status = 0 /\ add_task_statuses(df)

SpecStatus == Init /\ [][NextStatus]_vars

(***************************************************************************)
(* Properties of ingestion (SpecIngest).                                   *)
(***************************************************************************)
IngestDone == call.name = "add_product_sources" /\ call.outcome = "ok"

\* the (source, product) pairings of a batch
Pairings(df) == {<< r.source_systems, r.id_product >> : r \in df}

\* the id rule as the documentation states it
RuleId(t, s, p) ==
    (IF t.type_task = "SOURCE" THEN s ELSE p) \o "_" \o t.id_task

TemplateById(id) ==
    template_tasks[CHOOSE i \in DOMAIN template_tasks :
                       template_tasks[i].id_task = id]

RuleDependsOn(t, s, p) ==
    [j \in DOMAIN t.depends_on |-> RuleId(TemplateById(t.depends_on[j]), s, p)]

\* C1: after any sequence of add_product_sources calls the edge list has no
\* two entries equal on (source, target, type).
C1_NoDuplicateEdges ==
    \A i, j \in DOMAIN edges :
        (/\ edges[i].source = edges[j].source
         /\ edges[i].target = edges[j].target
         /\ edges[i].type = edges[j].type) => i = j

\* a second ingestion whose batch has one source on two rows: its
\* SOURCE_TASK edges are proposed once per row, and again by every call
C1_Witness ==
    /\ IngestDone
    /\ calls.ingest = 2
    /\ \E r1, r2 \in call.df :
           r1 # r2 /\ r1.source_systems = r2.source_systems
    /\ \E k \in DOMAIN edges : edges[k].type = EdgeType.SOURCE_TASK

\* C2: ingesting the same batch a second time leaves the task ids, every
\* task's depends_on and the edge list as they were.
C2_ReingestChangesNothing ==
    [][(/\ IngestDone
        /\ call'.name = "add_product_sources"
        /\ call'.outcome = "ok"
        /\ call'.df = call.df)
       => (/\ DOMAIN tasks' = DOMAIN tasks
           /\ \A t \in DOMAIN tasks : tasks'[t].depends_on = tasks[t].depends_on
           /\ edges' = edges)]_vars

\* C3: for every template task t and every pairing (s, p) of an ingestion,
\* instantiation produces a task with id s_t (SOURCE) or p_t (PRODUCT) whose
\* depends_on entries are the ids the same rule gives for the same pairing,
\* and the registry holds a task with that id.
C3_IdRule ==
    IngestDone =>
        \A pr \in Pairings(call.df) : \A i \in DOMAIN template_tasks :
            LET t == template_tasks[i]
                filled == FillTaskTemplate(template_tasks, products,
                                           pr[1], pr[2])
            IN /\ filled[i].id_task = RuleId(t, pr[1], pr[2])
               /\ filled[i].depends_on = RuleDependsOn(t, pr[1], pr[2])
               /\ RuleId(t, pr[1], pr[2]) \in DOMAIN tasks
               /\ \E q \in Pairings(call.df) :
                      /\ RuleId(t, q[1], q[2]) = RuleId(t, pr[1], pr[2])
                      /\ tasks[RuleId(t, pr[1], pr[2])].depends_on =
                             RuleDependsOn(t, q[1], q[2])

\* an ingestion of two pairings under a template with a SOURCE and a PRODUCT
\* task and a dependency between them
C3_Witness ==
    /\ IngestDone
    /\ Cardinality(Pairings(call.df)) = 2
    /\ \E i, j \in DOMAIN template_tasks :
           /\ template_tasks[i].type_task = "SOURCE"
           /\ template_tasks[j].type_task = "PRODUCT"
           /\ template_tasks[j].depends_on # << >>
    /\ \E t \in DOMAIN tasks : tasks[t].depends_on # << >>

\* C4: when a source feeds two products, a SOURCE-subtype task of the source
\* is one registry entry that is the same whichever pairing instantiated it
\* last, and the PRODUCT-subtype tasks of the two products are distinct.
C4_SharedSourceTask ==
    IngestDone =>
        \A p1, p2 \in Pairings(call.df) :
            (p1[1] = p2[1] /\ p1[2] # p2[2]) =>
                \A i \in DOMAIN template_tasks :
                    LET t == template_tasks[i]
                        f1 == FillTaskTemplate(template_tasks, products,
                                               p1[1], p1[2])[i]
                        f2 == FillTaskTemplate(template_tasks, products,
                                               p2[1], p2[2])[i]
                    IN IF t.type_task = "SOURCE"
                       THEN /\ f1.id_task = f2.id_task
                            /\ tasks[f1.id_task] = TaskNode(f1)
                            /\ tasks[f1.id_task] = TaskNode(f2)
                       ELSE /\ f1.id_task # f2.id_task
                            /\ {f1.id_task, f2.id_task} \subseteq DOMAIN tasks

(***************************************************************************)
(* Properties of the readiness pass (SpecReady).  call.before is the graph *)
(* the pass was given, dag the graph it returned.                          *)
(***************************************************************************)
ReadyDone == call.name = "set_tasks_ready" /\ call.outcome = "ok"

IsTask(g, i) == "type" \in DOMAIN g.vs[i] /\ g.vs[i].type = "TASK"

StatusOf(g, i) ==
    IF "status" \in DOMAIN g.vs[i] THEN g.vs[i].status ELSE None

\* the direct predecessors of vertex i that are tasks
TaskPredecessors(g, i) ==
    {j \in DOMAIN g.vs :
        IsTask(g, j) /\ \E k \in DOMAIN g.es : g.es[k].s = j /\ g.es[k].t = i}

Promoted(i) ==
    StatusOf(dag, i) = "ready" /\ StatusOf(call.before, i) # "ready"

\* index of the vertex called n in g, 0 if there is none
Named(g, n) ==
    IF \E i \in DOMAIN g.vs : g.vs[i].name = n
    THEN CHOOSE i \in DOMAIN g.vs : g.vs[i].name = n ELSE 0

\* C5: one readiness pass sets a task to "ready" if and only if, at the
\* start of the pass, the task is unset, has at least one direct task
\* predecessor, and every direct task predecessor is "done"; a task without
\* task predecessors is never promoted.
C5_PromotionRule ==
    ReadyDone =>
        /\ Len(dag.vs) = Len(call.before.vs)
        /\ \A i \in DOMAIN dag.vs :
               Promoted(i) <=>
                   /\ IsTask(call.before, i)
                   /\ StatusOf(call.before, i) = None
                   /\ TaskPredecessors(call.before, i) # {}
                   /\ \A j \in TaskPredecessors(call.before, i) :
                          StatusOf(call.before, j) = "done"

\* a pass that promotes a task with two task predecessors, both "done", and
\* leaves another unset task alone
C5_Witness ==
    /\ ReadyDone
    /\ \E i \in DOMAIN dag.vs :
           Promoted(i) /\ Cardinality(TaskPredecessors(call.before, i)) = 2
    /\ \E i \in DOMAIN dag.vs : IsTask(dag, i) /\ StatusOf(dag, i) = None

\* C6: a readiness pass changes no vertex that is not a task and no task
\* whose status is set; a vertex it changes differs only in its status,
\* which goes from unset to "ready"; the edges stay as they are.
C6_OnlyUnsetToReady ==
    ReadyDone =>
        /\ Len(dag.vs) = Len(call.before.vs)
        /\ dag.es = call.before.es
        /\ \A i \in DOMAIN dag.vs :
               \/ dag.vs[i] = call.before.vs[i]
               \/ /\ IsTask(call.before, i)
                  /\ StatusOf(call.before, i) = None
                  /\ StatusOf(dag, i) = "ready"
                  /\ \A a \in DOMAIN call.before.vs[i] \ {"status"} :
                         /\ a \in DOMAIN dag.vs[i]
                         /\ dag.vs[i][a] = call.before.vs[i][a]
                  /\ DOMAIN dag.vs[i] \subseteq
                         DOMAIN call.before.vs[i] \cup {"status"}

\* a pass over a graph in which a task with a set status other than "done"
\* has all its task predecessors "done", next to a task that is promoted
C6_Witness ==
    /\ ReadyDone
    /\ \E i \in DOMAIN dag.vs : Promoted(i)
    /\ \E i \in DOMAIN dag.vs :
           /\ IsTask(call.before, i)
           /\ StatusOf(call.before, i) = "waiting"
           /\ TaskPredecessors(call.before, i) # {}
           /\ \A j \in TaskPredecessors(call.before, i) :
                  StatusOf(call.before, j) = "done"
    /\ \E i \in DOMAIN dag.vs : ~IsTask(dag, i)

\* the chain A -> B -> C instantiated for the one pairing (S1, P1)
ChainOfOnePairing ==
    /\ template_tasks = TemplateChain
    /\ DOMAIN sources = {"S1"}
    /\ DOMAIN products = {"P1"}

ChainStatus(g, n) == StatusOf(g, Named(g, n))

HasChain(g) == \A n \in {"S1_A", "P1_B", "P1_C"} : Named(g, n) # 0

\* C7: for the chain A -> B -> C of one pairing, a pass over a graph with A
\* "done" and B, C unset sets B to "ready" and leaves C unset; a pass over a
\* graph in which B is "done" and C unset sets C to "ready".
C7_SinglePass ==
    (ReadyDone /\ ChainOfOnePairing /\ HasChain(call.before)) =>
        /\ (/\ ChainStatus(call.before, "S1_A") = "done"
            /\ ChainStatus(call.before, "P1_B") = None
            /\ ChainStatus(call.before, "P1_C") = None)
           => (/\ ChainStatus(dag, "P1_B") = "ready"
               /\ ChainStatus(dag, "P1_C") = None)
        /\ (/\ ChainStatus(call.before, "P1_B") = "done"
            /\ ChainStatus(call.before, "P1_C") = None)
           => ChainStatus(dag, "P1_C") = "ready"

\* the second pass of the scenario: A and then B were marked "done" by two
\* status files, and the pass over the view built afterwards promotes C
C7_Witness ==
    /\ ReadyDone
    /\ ChainOfOnePairing
    /\ HasChain(call.before)
    /\ calls.status = 2
    /\ "status" \in DOMAIN tasks["S1_A"] /\ tasks["S1_A"].status = "done"
    /\ "status" \in DOMAIN tasks["P1_B"] /\ tasks["P1_B"].status = "done"
    /\ ChainStatus(call.before, "P1_C") = None
    /\ ChainStatus(dag, "P1_C") = "ready"

HasStatus(tks, t) == t \in DOMAIN tks /\ "status" \in DOMAIN tks[t]

\* the status the last row about task t gives it
LastStatus(df, t) ==
    df[CHOOSE k \in DOMAIN df :
           df[k].task = t /\ \A l \in DOMAIN df : l > k => df[l].task # t].status

\* C16: a completed add_task_statuses call sets the status of every task it
\* has a row for to the status of the row, whatever the string and whatever
\* status the task had, and changes nothing else of that task and nothing
\* of any other task; in a readiness pass a task with a task predecessor
\* whose stored status is not "done" is not promoted.
C16_StatusStored ==
    [][/\ (/\ call'.name = "add_task_statuses"
           /\ calls'.status = calls.status + 1
           /\ call'.outcome = "ok")
          => /\ DOMAIN tasks' = DOMAIN tasks
             /\ \A t \in DOMAIN tasks :
                    IF \E k \in DOMAIN call'.df : call'.df[k].task = t
                    THEN /\ DOMAIN tasks'[t] = DOMAIN tasks[t] \cup {"status"}
                         /\ tasks'[t].status = LastStatus(call'.df, t)
                         /\ \A a \in DOMAIN tasks[t] \ {"status"} :
                                tasks'[t][a] = tasks[t][a]
                    ELSE tasks'[t] = tasks[t]
       /\ (call'.name = "set_tasks_ready" /\ call'.outcome = "ok")
          => \A i \in DOMAIN dag'.vs :
                 (\E j \in TaskPredecessors(call'.before, i) :
                      StatusOf(call'.before, j) \notin {"done", None})
                 => StatusOf(dag', i) = StatusOf(call'.before, i)
      ]_vars

\* a pass over a view of a tree after two status files, in which the one
\* task with a status is "on hold": its unset successor is not promoted
C16_Witness ==
    /\ ReadyDone
    /\ calls.status = 2
    /\ \E i, j \in DOMAIN dag.vs :
           /\ IsTask(call.before, i)
           /\ StatusOf(call.before, i) = None
           /\ j \in TaskPredecessors(call.before, i)
           /\ StatusOf(call.before, j) = "on hold"
           /\ HasStatus(tasks, dag.vs[j].name)
           /\ tasks[dag.vs[j].name].status = "on hold"
           /\ StatusOf(dag, i) = None
           /\ \A t \in DOMAIN tasks : t # dag.vs[j].name => ~HasStatus(tasks, t)

\* C22: no ingestion, status file, readiness pass or query changes the
\* template: the id, subtype, description and depends_on of every template
\* task stay as loaded, and the Template view built after the step is the
\* one built before it.
C22_TemplateImmutable ==
    [][/\ template_tasks' = template_tasks
       /\ TasksTemplate(template_tasks') = TasksTemplate(template_tasks)]_vars

\* a tree that was ingested into, given two status files, queried and given
\* a readiness pass that promoted a task, with the template it was built on
C22_Witness ==
    /\ ReadyDone
    /\ calls.ingest = 1
    /\ calls.status = 2
    /\ template_tasks \in Templates
    /\ \A i \in DOMAIN template_tasks :
           \E t \in DOMAIN tasks : tasks[t].description
                                       = template_tasks[i].description
    /\ \E i \in DOMAIN dag.vs : Promoted(i)

\* C23: a second readiness pass over the graph a pass returned, with no
\* status change in between, changes no vertex: the tasks the first pass
\* promoted are "ready", not "done", and unlock no successor.
C23_PassIdempotent ==
    ReadyDone => (~SetTasksReadyRaises(dag) /\ SetTasksReady(dag) = dag)

\* the second of two passes over one graph: the first promoted a task, and
\* an unset task whose only task predecessor is that "ready" task is still
\* unset after the second
C23_Witness ==
    /\ ReadyDone
    /\ call.before = dag
    /\ \E i, j \in DOMAIN dag.vs :
           /\ StatusOf(dag, j) = "ready"
           /\ IsTask(dag, i)
           /\ TaskPredecessors(dag, i) = {j}
           /\ StatusOf(dag, i) = None

(***************************************************************************)
(* Properties of the extraction queries (SpecQuery, SpecReady).            *)
(***************************************************************************)
QueryDone(name) == call.name = name /\ call.outcome = "ok"

\* the Full view of the tree as it is now; no query changes the tree
FullView == ProductSourceTasks(sources, products, tasks, edges)

\* the vertices a path leads from to v0: the least set that holds v0 and,
\* with the target of an edge, its source
AncestorSet(g, v0) ==
    {v \in DOMAIN g.vs :
        \A K \in SUBSET DOMAIN g.vs :
            (v0 \in K /\ \A e \in DOMAIN g.es :
                             g.es[e].t \in K => g.es[e].s \in K) => v \in K}

\* the vertices a path leads to from v0
DescendantSet(g, v0) ==
    {v \in DOMAIN g.vs :
        \A K \in SUBSET DOMAIN g.vs :
            (v0 \in K /\ \A e \in DOMAIN g.es :
                             g.es[e].s \in K => g.es[e].t \in K) => v \in K}

VertexNames(g) == {g.vs[i].name : i \in DOMAIN g.vs}

NamedEdges(g, K) ==
    {<< g.vs[g.es[e].s].name, g.vs[g.es[e].t].name, g.es[e].type >> :
        e \in {e \in DOMAIN g.es : g.es[e].s \in K /\ g.es[e].t \in K}}

\* g is the subgraph of full induced on the vertex set K
IsInduced(g, full, K) ==
    /\ Len(g.vs) = Cardinality(K)
    /\ {g.vs[i] : i \in DOMAIN g.vs} = {full.vs[i] : i \in K}
    /\ Len(g.es) =
           Cardinality({e \in DOMAIN full.es :
                            full.es[e].s \in K /\ full.es[e].t \in K})
    /\ NamedEdges(g, DOMAIN g.vs) = NamedEdges(full, K)

\* the tree after the single ingestion of the pairing S1 -> P1 under the
\* template A(SOURCE), B(PRODUCT, depends on A)
OnePairingAB ==
    /\ template_tasks = TemplateAB
    /\ calls.ingest = 1
    /\ DOMAIN sources = {"S1"}
    /\ DOMAIN products = {"P1"}

\* C8: get_product_tasks(p) returns the subgraph of the Full view induced on
\* exactly the vertices from which p is reachable along the edges, p
\* included; for template A(SOURCE), B(PRODUCT, depends on A) and the one
\* pairing S1 -> P1 these are S1, P1, S1_A and P1_B.
C8_Ancestors ==
    QueryDone("get_product_tasks") =>
        /\ Named(FullView, call.id) # 0
        /\ IsInduced(dag, FullView,
                     AncestorSet(FullView, Named(FullView, call.id)))
        /\ (OnePairingAB /\ call.id = "P1") =>
               VertexNames(dag) = {"S1", "P1", "S1_A", "P1_B"}

\* an extraction for a product of a tree with two products: the vertices of
\* its own tasks and sources are kept, those of the other product are deleted
C8_Witness ==
    /\ QueryDone("get_product_tasks")
    /\ call.id \in DOMAIN products
    /\ Cardinality(DOMAIN products) = 2
    /\ Len(dag.vs) < Len(FullView.vs)
    /\ \E i, j \in DOMAIN dag.vs :
           /\ dag.vs[i].name \in DOMAIN sources
           /\ IsTask(dag, j)
           /\ "depends_on" \in DOMAIN dag.vs[j]
           /\ dag.vs[j].depends_on # << >>

\* C9: get_source_tasks(s) returns the subgraph of the Full view induced on
\* exactly the vertices reachable from s along the edges, s included; it
\* holds every task of s and every vertex those tasks lead to.
C9_Descendants ==
    QueryDone("get_source_tasks") =>
        /\ Named(FullView, call.id) # 0
        /\ IsInduced(dag, FullView,
                     DescendantSet(FullView, Named(FullView, call.id)))
        /\ \A k \in DOMAIN edges :
               (/\ edges[k].type # EdgeType.SOURCE_PRODUCT
                /\ edges[k].source \in VertexNames(dag))
               => edges[k].target \in VertexNames(dag)

\* an extraction for one of two sources: its tasks, the product tasks that
\* depend on them and their product are kept, the other source is deleted
C9_Witness ==
    /\ QueryDone("get_source_tasks")
    /\ call.id \in DOMAIN sources
    /\ Cardinality(DOMAIN sources) = 2
    /\ Len(dag.vs) < Len(FullView.vs)
    /\ \E i, j \in DOMAIN dag.vs :
           /\ dag.vs[i].name \in DOMAIN products
           /\ IsTask(dag, j)
           /\ "type_task" \in DOMAIN dag.vs[j]
           /\ dag.vs[j].type_task = "PRODUCT"

\* the names of the vertices of the Full view: the registry keys and the
\* ends of the edges that are not source-product edges
FullViewNames ==
    DOMAIN sources \cup DOMAIN products \cup DOMAIN tasks
    \cup UNION {{edges[k].source, edges[k].target} :
                   k \in {k \in DOMAIN edges :
                              edges[k].type # EdgeType.SOURCE_PRODUCT}}

\* C10: get_product_tasks and get_source_tasks with an id that is no vertex
\* of the graph, and add_task_statuses with a row whose task id is not in
\* the task registry, end in an error and return no graph.
C10_NotFound ==
    /\ (/\ call.name \in {"get_product_tasks", "get_source_tasks"}
        /\ call.id \notin FullViewNames)
       => (call.outcome \in {"IndexError", "ValueError"} /\ ~dag.built)
    /\ (/\ call.name = "add_task_statuses"
        /\ \E k \in DOMAIN call.df : call.df[k].task \notin DOMAIN tasks)
       => call.outcome = "KeyError"

\* get_product_tasks for an id that names nothing, on a tree with tasks to
\* which a status file was applied
C10_Witness ==
    /\ call.name = "get_product_tasks"
    /\ call.id = Bogus
    /\ call.outcome = "IndexError"
    /\ DOMAIN tasks # {}
    /\ calls.status > 0

(***************************************************************************)
(* Properties of construction and of repeated ingestion (SpecIngest).      *)
(***************************************************************************)
\* a task of the template names a dependency that is no template task id
HasDanglingDependency(tt) ==
    \E i \in DOMAIN tt : \E j \in DOMAIN tt[i].depends_on :
        \A k \in DOMAIN tt : tt[k].id_task # tt[i].depends_on[j]

\* C11: a template in which a depends_on entry names no template task is
\* rejected at construction; no PlanningTree holds such a template, and no
\* ingestion is left to fail on it.
C11_DanglingRejectedAtLoad ==
    /\ ~HasDanglingDependency(template_tasks)
    /\ ~(call.name = "add_product_sources" /\ call.outcome = "KeyError")

\* the ids the three registries hold
RegistryIds == DOMAIN sources \cup DOMAIN products \cup DOMAIN tasks

\* C13: after a completed add_product_sources call of a tree in which every
\* call completes (the template has no dangling dependency), whatever
\* batches came before, both ends of every edge of the edge list are ids of
\* the sources, products or tasks registry; stated for the non-empty
\* batches.
C13_EdgeEndpointsRegistered ==
    (IngestDone /\ call.df # {} /\ ~HasDanglingDependency(template_tasks)) =>
        \A k \in DOMAIN edges :
            edges[k].source \in RegistryIds /\ edges[k].target \in RegistryIds

\* C14: a completed add_product_sources call with a non-empty batch that
\* follows a completed one leaves every source, product and task of the
\* registries in them.
C14_NoEntityDeleted ==
    [][(IngestDone /\ call'.name = "add_product_sources"
                   /\ call'.outcome = "ok" /\ call'.df # {})
       => (/\ DOMAIN sources \subseteq DOMAIN sources'
           /\ DOMAIN products \subseteq DOMAIN products'
           /\ DOMAIN tasks \subseteq DOMAIN tasks')]_vars

\* C15: after the ingestion of a batch the keys of the sources registry are
\* exactly the distinct source names of the batch and the keys of the
\* products registry exactly its distinct product ids, each key with one
\* entity that carries the attributes of its rows, however many rows name
\* the key and however often the batch is ingested.
C15_OneEntityPerKey ==
    IngestDone =>
        /\ DOMAIN sources = {r.source_systems : r \in call.df}
        /\ DOMAIN products = {r.id_product : r \in call.df}
        /\ \A n \in DOMAIN sources :
               sources[n] = [name |-> n, task_type |-> "SOURCE",
                             type |-> VertexType.SOURCE]
        /\ \A r \in call.df :
               products[r.id_product] =
                   [name |-> r.id_product, name_product |-> r.name_product,
                    status |-> r.status, type |-> VertexType.PRODUCT]

\* a second ingestion whose batch names one source on two rows and two
\* products
C15_Witness ==
    /\ IngestDone
    /\ calls.ingest = 2
    /\ Cardinality(call.df) = 2
    /\ Cardinality(DOMAIN sources) = 1
    /\ Cardinality(DOMAIN products) = 2

\* the pairings instantiated so far: every call instantiates the pairings of
\* the source-product edges it adds, unless the template makes it fail
IngestedPairings ==
    IF HasDanglingDependency(template_tasks) THEN {}
    ELSE {<< edges[k].source, edges[k].target >> :
             k \in {k \in DOMAIN edges :
                        edges[k].type = EdgeType.SOURCE_PRODUCT}}

EdgesOfType(type) == {edges[k] : k \in {k \in DOMAIN edges :
                                            edges[k].type = type}}

\* e is the dependency edge of some depends_on entry under pairing pr
IsDependencyEdgeOf(e, pr) ==
    \E i \in DOMAIN template_tasks :
        \E j \in DOMAIN template_tasks[i].depends_on :
            /\ e.target = RuleId(template_tasks[i], pr[1], pr[2])
            /\ e.source = RuleId(TemplateById(template_tasks[i].depends_on[j]),
                                 pr[1], pr[2])

\* C18: both ends of every TASK_DEPENDENCY edge are ids the id rule gives
\* for one and the same ingested pairing; no dependency edge joins tasks of
\* two products or tasks of two sources.
C18_NoCrossPairingDependency ==
    \A e \in EdgesOfType(EdgeType.TASK_DEPENDENCY) :
        /\ \E pr \in IngestedPairings : IsDependencyEdgeOf(e, pr)
        /\ {e.source, e.target} \subseteq DOMAIN tasks
        /\ tasks[e.source].type_task = tasks[e.target].type_task
               => tasks[e.source].worked_on = tasks[e.target].worked_on

\* two products and two sources have been ingested, under a template with a
\* dependency between two tasks of the same subtype
C18_Witness ==
    /\ IngestDone
    /\ Cardinality({pr[1] : pr \in IngestedPairings}) = 2
    /\ Cardinality({pr[2] : pr \in IngestedPairings}) = 2
    /\ \E e \in EdgesOfType(EdgeType.TASK_DEPENDENCY) :
           tasks[e.source].type_task = tasks[e.target].type_task
    /\ Cardinality(EdgesOfType(EdgeType.TASK_DEPENDENCY)) >= 2

\* the task edges the documentation prescribes for pairing pr
PrescribedEdges(pr) ==
    LET tt == template_tasks
    IN {Edge(pr[1], RuleId(tt[i], pr[1], pr[2]), EdgeType.SOURCE_TASK) :
            i \in {i \in DOMAIN tt : tt[i].type_task = "SOURCE"}}
       \cup
       {Edge(RuleId(tt[i], pr[1], pr[2]), pr[2], EdgeType.PRODUCT_TASK) :
            i \in {i \in DOMAIN tt : tt[i].type_task = "PRODUCT"}}
       \cup
       UNION {{Edge(RuleId(TemplateById(tt[i].depends_on[j]), pr[1], pr[2]),
                    RuleId(tt[i], pr[1], pr[2]), EdgeType.TASK_DEPENDENCY) :
                   j \in DOMAIN tt[i].depends_on} : i \in DOMAIN tt}

\* C19: the SOURCE_TASK, PRODUCT_TASK and TASK_DEPENDENCY edges of the edge
\* list are exactly: source -> task for every SOURCE task, task -> product
\* for every PRODUCT task and dependency -> task for every depends_on entry,
\* of every ingested pairing; every depends_on entry of a task of the
\* registry has its edge.
C19_TaskEdges ==
    /\ EdgesOfType(EdgeType.SOURCE_TASK)
           \cup EdgesOfType(EdgeType.PRODUCT_TASK)
           \cup EdgesOfType(EdgeType.TASK_DEPENDENCY)
       = UNION {PrescribedEdges(pr) : pr \in IngestedPairings}
    /\ \A t \in DOMAIN tasks : \A j \in DOMAIN tasks[t].depends_on :
           Edge(tasks[t].depends_on[j], t, EdgeType.TASK_DEPENDENCY)
               \in EdgesOfType(EdgeType.TASK_DEPENDENCY)

\* three pairings ingested in two calls, with edges of the three kinds
C19_Witness ==
    /\ IngestDone
    /\ calls.ingest = 2
    /\ Cardinality(IngestedPairings) = 3
    /\ EdgesOfType(EdgeType.SOURCE_TASK) # {}
    /\ EdgesOfType(EdgeType.PRODUCT_TASK) # {}
    /\ EdgesOfType(EdgeType.TASK_DEPENDENCY) # {}

(***************************************************************************)
(* Properties of ingestion after status files, and of the task table       *)
(* (SpecReport).                                                           *)
(***************************************************************************)
\* the task ids the pairings of a batch instantiate
Instantiated(df) ==
    {RuleId(template_tasks[i], pr[1], pr[2]) :
        i \in DOMAIN template_tasks, pr \in Pairings(df)}

\* C12: an add_product_sources call whose batch instantiates a task id that
\* has a status from add_task_statuses ends in an error, and the task keeps
\* its status.
C12_ReinstantiationChecked ==
    [][(/\ call'.name = "add_product_sources"
        /\ calls'.ingest = calls.ingest + 1
        /\ \E t \in Instantiated(call'.df) : HasStatus(tasks, t))
       => (/\ call'.outcome # "ok"
           /\ \A t \in Instantiated(call'.df) :
                  HasStatus(tasks, t) =>
                      HasStatus(tasks', t) /\ tasks'[t].status = tasks[t].status)
      ]_vars

\* C27: an add_product_sources call leaves every task whose id no pairing
\* of its batch instantiates in the registry with the record and the status
\* it had, and every edge of the edge list in the edge list.
C27_OtherTasksAndEdgesKept ==
    [][(call'.name = "add_product_sources"
            /\ calls'.ingest = calls.ingest + 1)
       => (/\ \A t \in DOMAIN tasks :
                  t \notin Instantiated(call'.df)
                      => (t \in DOMAIN tasks' /\ tasks'[t] = tasks[t])
           /\ \A k \in DOMAIN edges : edges[k] \in Range(edges'))]_vars

\* a second ingestion that instantiated some tasks of the tree again and
\* not a task to which a status file had given a status
C27_Witness ==
    /\ IngestDone
    /\ calls.ingest = 2
    /\ \E t \in DOMAIN tasks :
           t \notin Instantiated(call.df) /\ HasStatus(tasks, t)
    /\ \E t \in DOMAIN tasks : t \in Instantiated(call.df)

\* C20: the task table has one row per task of the registry, and every row
\* has a status: the status applied to the task, "waiting" for a task
\* without one, also when no task has a status.
C20_TaskTable ==
    (call.name = "get_tasks" /\ DOMAIN tasks # {}) =>
        /\ call.outcome = "ok"
        /\ Len(call.table) = Cardinality(DOMAIN tasks)
        /\ \A t \in DOMAIN tasks :
               \E i \in DOMAIN call.table :
                   /\ call.table[i].id_task = t
                   /\ "status" \in DOMAIN call.table[i]
                   /\ call.table[i].status =
                          IF HasStatus(tasks, t) THEN tasks[t].status
                          ELSE "waiting"

(***************************************************************************)
(* Properties of the views as a whole (SpecViews).                         *)
(***************************************************************************)
ViewNames ==
    {"get_tasks_template", "get_product_sources", "get_product_source_tasks",
     "get_task_graphs", "get_product_tasks", "get_source_tasks"}

\* C17: building a view or extracting the subgraph of a product or a source
\* leaves the sources, products and tasks registries and the edge list as
\* they were, whether the call returns a graph or ends in an error.
C17_ViewsLeaveRegistry ==
    [][call'.name \in ViewNames
       => (/\ sources' = sources
           /\ products' = products
           /\ tasks' = tasks
           /\ edges' = edges)]_vars

\* an extraction that returned fewer vertices than the Full view has: a
\* task of the registry was deleted from the extracted copy
C17_Witness ==
    /\ QueryDone("get_source_tasks")
    /\ Len(dag.vs) < Len(FullView.vs)
    /\ \E t \in DOMAIN tasks : t \notin VertexNames(dag)
    /\ \E k \in DOMAIN edges : edges[k].target \notin VertexNames(dag)

\* C24: after every sequence of ingestions the depends_on list of every
\* task names exactly the sources of the TASK_DEPENDENCY edges that target
\* the task, also for a PRODUCT task of a product fed by two sources whose
\* template dependency is a SOURCE task.
C24_DependsOnMatchesEdges ==
    IngestDone =>
        \A t \in DOMAIN tasks :
            Range(tasks[t].depends_on) =
                {e.source : e \in {e \in EdgesOfType(EdgeType.TASK_DEPENDENCY) :
                                       e.target = t}}

\* the entities of a registry
Entities(d) == {d[k] : k \in DOMAIN d}

\* the edges of the edge list whose type is in types, as triples
EdgeTriples(types) ==
    {<< edges[k].source, edges[k].target, edges[k].type >> :
        k \in {k \in DOMAIN edges : edges[k].type \in types}}

\* the vertices of g are exactly the entities ents and its edges exactly
\* the edges of the edge list whose type is in types
IsViewOf(g, ents, types) ==
    /\ Len(g.vs) = Cardinality(ents)
    /\ {g.vs[i] : i \in DOMAIN g.vs} = ents
    /\ Len(g.es) = Cardinality(EdgeTriples(types))
    /\ NamedEdges(g, DOMAIN g.vs) = EdgeTriples(types)

\* C21: the Full view has all sources, products and tasks of the registries
\* and every edge except the SOURCE_PRODUCT edges; the Source-product view
\* the sources and products and the SOURCE_PRODUCT edges; the Task-only view
\* the tasks and the TASK_DEPENDENCY edges; none has another vertex or edge.
\* Stated for the trees whose template lets every ingestion complete.
C21_ViewContents ==
    ~HasDanglingDependency(template_tasks) =>
        /\ QueryDone("get_product_source_tasks") =>
               IsViewOf(dag,
                        Entities(sources) \cup Entities(products)
                            \cup Entities(tasks),
                        {EdgeType.SOURCE_TASK, EdgeType.PRODUCT_TASK,
                         EdgeType.TASK_DEPENDENCY})
        /\ QueryDone("get_product_sources") =>
               IsViewOf(dag, Entities(sources) \cup Entities(products),
                        {EdgeType.SOURCE_PRODUCT})
        /\ QueryDone("get_task_graphs") =>
               IsViewOf(dag, Entities(tasks), {EdgeType.TASK_DEPENDENCY})

(***************************************************************************)
(* The readiness pass on an extracted view against the pass on the Full    *)
(* view (SpecReady).                                                       *)
(***************************************************************************)
\* a readiness pass over g promotes vertex i (0: no vertex)
PassPromotes(g, i) ==
    /\ i # 0
    /\ ~SetTasksReadyRaises(g)
    /\ StatusOf(g, i) # "ready"
    /\ StatusOf(SetTasksReady(g), i) = "ready"

\* the pass over view promotes the task at i if and only if the pass over
\* the Full view promotes the task of that name
AgreesAt(view, i) ==
    PassPromotes(view, i)
        <=> PassPromotes(FullView, Named(FullView, view.vs[i].name))

\* every task predecessor that the task at i has in the Full view is a
\* vertex of view
PredecessorsKept(view, i) ==
    \A j \in TaskPredecessors(FullView, Named(FullView, view.vs[i].name)) :
        FullView.vs[j].name \in VertexNames(view)

\* C25 as claimed: for every task of the graph get_product_tasks or
\* get_source_tasks returned, a readiness pass over that graph promotes the
\* task if and only if a pass over the Full view promotes it.
C25_ViewPassAgrees ==
    (QueryDone("get_product_tasks") \/ QueryDone("get_source_tasks")) =>
        \A i \in DOMAIN dag.vs : IsTask(dag, i) => AgreesAt(dag, i)

\* C25 amended: the passes agree on every task of the graph
\* get_product_tasks returned, and on every task of the graph
\* get_source_tasks returned whose task predecessors in the Full view are
\* all in that graph; a pass that was run on the ancestors of a product
\* promoted exactly the tasks of it that a pass over the Full view promotes.
C25_ViewPassAgreesWhereClosed ==
    /\ QueryDone("get_product_tasks") =>
           \A i \in DOMAIN dag.vs : IsTask(dag, i) => AgreesAt(dag, i)
    /\ QueryDone("get_source_tasks") =>
           \A i \in DOMAIN dag.vs :
               (IsTask(dag, i) /\ PredecessorsKept(dag, i)) => AgreesAt(dag, i)
    /\ (/\ ReadyDone
        /\ \E id \in DOMAIN products :
               call.before = Extract(FullView, id, "in"))
       => \A i \in DOMAIN dag.vs :
              IsTask(dag, i) =>
                  (Promoted(i) <=>
                       PassPromotes(FullView,
                                    Named(FullView, dag.vs[i].name)))

\* a pass over the ancestors of one of two products, a graph smaller than
\* the Full view, that promoted a task
C25_Witness ==
    /\ ReadyDone
    /\ Cardinality(DOMAIN products) = 2
    /\ \E id \in DOMAIN products : call.before = Extract(FullView, id, "in")
    /\ Len(call.before.vs) < Len(FullView.vs)
    /\ \E i \in DOMAIN dag.vs : Promoted(i)

\* the graphs the four graph queries of the readiness flow would return on
\* the tree srcs, prods, tks, eds
FreshViews(srcs, prods, tks, eds) ==
    LET full == ProductSourceTasks(srcs, prods, tks, eds)
    IN {full, TaskGraphs(tks, eds)}
       \cup {Extract(full, id, "in") : id \in DOMAIN prods}
       \cup {Extract(full, id, "out") : id \in DOMAIN srcs}

\* the names of the direct task predecessors of vertex i of g
PredecessorNames(g, i) == {g.vs[j].name : j \in TaskPredecessors(g, i)}

\* the task table of tks has a row for task n, and each such row is without
\* a status column or has the status "waiting"
ReportedWaiting(tks, n) ==
    LET df == GetTasks(tks)
    IN /\ \E r \in DOMAIN df : df[r].id_task = n
       /\ \A r \in DOMAIN df :
              df[r].id_task = n
                  => ("status" \notin DOMAIN df[r] \/ df[r].status = "waiting")

\* a completed pass leaves the template and the registry as they were, and
\* a task it promoted has no status in the registry, is "waiting" or
\* without status in the task table, and is promoted by a pass over every
\* fresh view that holds it (with samePredecessors: over every fresh view
\* in which it has the task predecessors it has in the snapshot)
PassLeavesRegistry(samePredecessors) ==
    (call'.name = "set_tasks_ready" /\ call'.outcome = "ok") =>
        /\ << template_tasks, sources, products, tasks, edges >>'
               = << template_tasks, sources, products, tasks, edges >>
        /\ \A i \in DOMAIN dag.vs :
               (StatusOf(dag', i) = "ready" /\ StatusOf(dag, i) # "ready") =>
                   LET n == dag.vs[i].name
                   IN /\ ~HasStatus(tasks', n)
                      /\ ReportedWaiting(tasks', n)
                      /\ \A v \in FreshViews(sources', products', tasks',
                                             edges') :
                             (/\ Named(v, n) # 0
                              /\ samePredecessors =>
                                     PredecessorNames(v, Named(v, n))
                                         = PredecessorNames(dag, i))
                                 => /\ ~SetTasksReadyRaises(v)
                                    /\ StatusOf(v, Named(v, n)) # "ready"
                                    /\ StatusOf(SetTasksReady(v), Named(v, n))
                                           = "ready"

\* C28 as claimed: set_tasks_ready changes only the graph it is given; the
\* registry is as it was, so a task promoted in the graph has no status in
\* the registry, is "waiting" or without status in the task table, and is
\* promoted again in every freshly built view.
C28_PassLeavesRegistry == [][PassLeavesRegistry(FALSE)]_vars

\* C28 amended: the same, with the task promoted again in every freshly
\* built view in which it has the direct task predecessors it has in the
\* graph the pass was given.
C28_PassLeavesRegistrySamePredecessors == [][PassLeavesRegistry(TRUE)]_vars

\* a pass over the Full view promoted a task that has no status in the
\* registry and that the graph of the ancestors of one of two products, a
\* smaller graph, holds too
C28_Witness ==
    /\ ReadyDone
    /\ call.before = FullView
    /\ \E i \in DOMAIN dag.vs :
           /\ Promoted(i)
           /\ ~HasStatus(tasks, dag.vs[i].name)
           /\ \E id \in DOMAIN products :
                  LET v == Extract(FullView, id, "in")
                  IN /\ Len(v.vs) < Len(FullView.vs)
                     /\ Named(v, dag.vs[i].name) # 0

(***************************************************************************)
(* Properties of the names of the vertices (SpecCollide).                  *)
(***************************************************************************)
\* C29: after an ingestion of any rows with any template, the source names,
\* the product ids and the task ids are pairwise distinct: no two of the
\* vertices the Full view is built from have the same name, and no two
\* vertices of a graph a query returned have.
C29_DistinctIds ==
    /\ IngestDone =>
           LET vertices == ProductSourceTasksVertices(sources, products, tasks)
           IN \A i, j \in DOMAIN vertices :
                  i # j => vertices[i].name # vertices[j].name
    /\ dag.built =>
           \A i, j \in DOMAIN dag.vs : i # j => dag.vs[i].name # dag.vs[j].name

(***************************************************************************)
(* Properties of a status file of several rows (SpecStatus).               *)
(***************************************************************************)
\* the index of the first row of df about a task that tks does not hold
FirstUnknown(tks, df) ==
    CHOOSE k \in DOMAIN df :
        /\ df[k].task \notin DOMAIN tks
        /\ \A l \in DOMAIN df : l < k => df[l].task \in DOMAIN tks

\* the rows of df before index k0 that are about task t
RowsBefore(df, k0, t) == {k \in DOMAIN df : k < k0 /\ df[k].task = t}

\* C26: when a status file has a row about an unknown task, the call ends
\* in an error, every row before that row has been applied (a task has the
\* status of the last such row about it), and no row after it has been:
\* every other task is as it was.
C26_NotAtomic ==
    [][(/\ call'.name = "add_task_statuses"
        /\ calls'.status = calls.status + 1
        /\ \E k \in DOMAIN call'.df : call'.df[k].task \notin DOMAIN tasks)
       => LET df == call'.df
              k0 == FirstUnknown(tasks, df)
          IN /\ call'.outcome = "KeyError"
             /\ DOMAIN tasks' = DOMAIN tasks
             /\ \A t \in DOMAIN tasks :
                    IF RowsBefore(df, k0, t) = {}
                    THEN tasks'[t] = tasks[t]
                    ELSE LET k == CHOOSE k \in RowsBefore(df, k0, t) :
                                      \A l \in RowsBefore(df, k0, t) : l <= k
                         IN tasks'[t] = SetItem(tasks[t], "status",
                                                df[k].status)
      ]_vars

\* a file whose first row is about a task of the tree and whose second row
\* is about an unknown task: the call failed and the task has the status
C26_Witness ==
    /\ call.name = "add_task_statuses"
    /\ call.outcome = "KeyError"
    /\ Len(call.df) >= 2
    /\ call.df[1].task \in DOMAIN tasks
    /\ call.df[2].task \notin DOMAIN tasks
    /\ HasStatus(tasks, call.df[1].task)
    /\ tasks[call.df[1].task].status = call.df[1].status

====
